---- MODULE Spec2Model ----
(***************************************************************************)
(* Model of build_repo.py: process_zipball, git_clone_method and           *)
(* parse_extensions, with the public/ directory, the extensions/           *)
(* directory and the upstream GitHub repositories as state.                *)
(*                                                                         *)
(* Python strings are sequences of one-character strings, so that split,   *)
(* join, startswith, endswith and sorted are computed, not assumed.        *)
(***************************************************************************)
EXTENDS Integers, Sequences, FiniteSets, TLC

VARIABLES
    extdir,      \* extensions/: descriptor file name -> parsed yaml mapping
    latest,      \* upstream: github locator -> tag of the latest release, or NoTag
    repoDirs,    \* public/<repo> directories that exist
    verdir,      \* public/<repo>/<version>: [exists, dirs, files]
    zips,        \* public/<repo>/<version>.zip files that exist
    tmp,         \* public/<repo>_tmp clone directories that exist
    pkgIndex,    \* public/<repo>/index.json: [exists, data]
    rootIndex,   \* public/index.json: [exists, packages]
    pc,          \* parse_extensions: idle (not called), loop, done, aborted
    session,     \* ghub_session of the current run: "Session" or "None"
    extfiles,    \* the run's extfiles list
    idx,         \* index in extfiles of the next descriptor of the for loop
    extensions,  \* the run's extensions accumulator
    last,        \* what the last loop iteration did (observation only)
    err,         \* the uncaught exception that ended the run, or "none"
    clean,       \* the last run completed and nothing was altered since
    fresh,       \* this run repeats a completed run, all inputs the same
    crashed,     \* some run so far ended in an exception
    zarchive,    \* process_zipball alone: the archive's namelist
    zresult      \* process_zipball alone: its outcome, or not yet run

vars == <<extdir, latest, repoDirs, verdir, zips, tmp, pkgIndex, rootIndex,
          pc, session, extfiles, idx, extensions, last, err, clean, fresh,
          crashed, zarchive, zresult>>

(***************************************************************************)
(* Python str operations on character sequences.                           *)
(***************************************************************************)

\* The characters used, in code point order ('-' 45, '.' 46, '/' 47, digits,
\* lower case letters), as str comparison orders them.
Alphabet == <<"-", ".", "/", "1", "2", "a", "b", "c", "d", "e", "f", "g",
              "h", "i", "l", "m", "n", "o", "p", "r", "s", "t", "x", "y", "z">>

Ord(c) == CHOOSE i \in 1..Len(Alphabet) : Alphabet[i] = c

\* a < b for two str values
RECURSIVE StrLess(_, _)
StrLess(a, b) ==
    IF b = <<>> THEN FALSE
    ELSE IF a = <<>> THEN TRUE
    ELSE IF a[1] = b[1] THEN StrLess(Tail(a), Tail(b))
    ELSE Ord(a[1]) < Ord(b[1])

\* s.startswith(p)
StartsWith(s, p) == Len(s) >= Len(p) /\ SubSeq(s, 1, Len(p)) = p

\* s.endswith(p)
EndsWith(s, p) ==
    Len(s) >= Len(p) /\ SubSeq(s, Len(s) - Len(p) + 1, Len(s)) = p

\* s.split('/'): always at least one segment; segments may be empty
RECURSIVE Split(_)
Split(s) ==
    IF \A i \in 1..Len(s) : s[i] # "/" THEN <<s>>
    ELSE LET k == CHOOSE i \in 1..Len(s) :
                      s[i] = "/" /\ \A j \in 1..(i - 1) : s[j] # "/"
         IN <<SubSeq(s, 1, k - 1)>> \o Split(SubSeq(s, k + 1, Len(s)))

\* '/'.join(segs)
RECURSIVE Join(_)
Join(segs) ==
    IF segs = <<>> THEN <<>>
    ELSE IF Len(segs) = 1 THEN segs[1]
    ELSE segs[1] \o <<"/">> \o Join(Tail(segs))

\* sorted(S) for a set of str values
RECURSIVE Sorted(_)
Sorted(S) ==
    IF S = {} THEN <<>>
    ELSE LET m == CHOOSE x \in S : \A y \in S \ {x} : StrLess(x, y)
         IN <<m>> \o Sorted(S \ {m})

Front(s) == SubSeq(s, 1, Len(s) - 1)

Range(s) == {s[i] : i \in 1..Len(s)}

(***************************************************************************)
(* The version directory as process_zipball sees it: the directories and   *)
(* the files below public/<repo>/<version>, each named by its path         *)
(* relative to that directory.                                             *)
(***************************************************************************)

NoDir == [exists |-> FALSE, dirs |-> {}, files |-> {}]

EmptyDir == [exists |-> TRUE, dirs |-> {}, files |-> {}]

\* the path components of a relative path, a trailing '/' dropped
DropTrailing(segs) == IF segs[Len(segs)] = <<>> THEN Front(segs) ELSE segs

Components(filename) == DropTrailing(Split(filename))

\* the proper ancestors of a path, as paths
Prefixes(comps) == {Join(SubSeq(comps, 1, k)) : k \in 1..(Len(comps) - 1)}

Ancestors(filename) == Prefixes(Components(filename))

\* os.path.dirname(os.path.join(repo_dir, release_version, filename)),
\* relative to the version directory (<<>> is the version directory itself)
Dirname(filename) == Join(Front(Split(filename)))

\* open() of the path with ancestors anc, slash telling a trailing '/'
OpenPath(d, path, anc, slash) ==
    IF \E a \in anc : a \in d.files
          /\ \A b \in anc : Len(b) < Len(a) => b \in d.dirs
    THEN "NotADirectoryError"
    ELSE IF \E a \in anc : a \notin d.dirs THEN "FileNotFoundError"
    ELSE IF slash
         THEN IF path \in d.files THEN "NotADirectoryError"
              ELSE "IsADirectoryError"
         ELSE IF path \in d.dirs THEN "IsADirectoryError" ELSE "ok"

\* open(os.path.join(repo_dir, release_version, filename), "wb"): the
\* exception raised, or "ok" when the file is created or truncated
OpenWb(d, filename) ==
    OpenPath(d, Join(Components(filename)), Ancestors(filename),
             filename[Len(filename)] = "/")

\* os.makedirs(path): the exception raised, or "ok"
MakedirsError(d, path) ==
    IF \E a \in Ancestors(path) : a \in d.files THEN "NotADirectoryError"
    ELSE IF path = <<>> \/ path \in d.dirs \/ path \in d.files
         THEN "FileExistsError"
    ELSE "ok"

\* the directory after a successful os.makedirs(path)
Makedirs(d, path) ==
    [d EXCEPT !.dirs = @ \cup Ancestors(path) \cup {path}]

\* lines 46-51: the except branch, e what os.makedirs(p) does
ZipExcept(d, p, e) ==
    IF e = "ok"
    THEN [dir |-> Makedirs(d, p), raised |-> "none"]
    ELSE [dir |-> d, raised |-> e]

\* lines 37-51: the try statement, r what open() does
ZipTry(d, filename, r) ==
    IF r = "ok"
    THEN [dir |-> [d EXCEPT !.files = @ \cup {filename}], raised |-> "none"]
    ELSE IF r \in {"FileNotFoundError", "IsADirectoryError"}
    THEN ZipExcept(d, Dirname(filename), MakedirsError(d, Dirname(filename)))
    ELSE [dir |-> d, raised |-> r]

\* lines 34-51: the loop body once filename is computed
ZipFilename(d, filename) ==
    IF filename = <<>> THEN [dir |-> d, raised |-> "none"]
    ELSE IF StartsWith(filename, <<".">>) THEN [dir |-> d, raised |-> "none"]
    ELSE ZipTry(d, filename, OpenWb(d, filename))

\* One pass of the for loop of process_zipball over member: the directory
\* afterwards and the exception that escapes the loop body, or "none".
ZipMember(d, member) == ZipFilename(d, Join(Tail(Split(member))))

\* the for loop of lines 30-51 over the namelist archive
RECURSIVE ZipLoop(_, _)
ZipRest(r, rest) == IF r.raised # "none" THEN r ELSE ZipLoop(r.dir, rest)

ZipLoop(d, archive) ==
    IF archive = <<>> THEN [dir |-> d, raised |-> "none"]
    ELSE ZipRest(ZipMember(d, archive[1]), Tail(archive))

\* line 53 removes the archive unless an exception left the loop
ZipRemove(r) == [dir |-> r.dir, raised |-> r.raised, zip |-> r.raised # "none"]

\* process_zipball on an archive present at <version>.zip whose namelist is
\* archive: [dir, raised, zip], zip telling whether the archive file is left
process_zipball(d, archive) == ZipRemove(ZipLoop(d, archive))

\* The files an archive holds once its root segment is stripped and the
\* hidden and empty paths are left out.
IsFileEntry(member) == member # <<>> /\ member[Len(member)] # "/"

Stripped(member) == Join(Tail(Split(member)))

Retained(archive) ==
    {Stripped(archive[i]) : i \in
        {j \in 1..Len(archive) :
            /\ IsFileEntry(archive[j])
            /\ Stripped(archive[j]) # <<>>
            /\ ~StartsWith(Stripped(archive[j]), <<".">>)}}

(***************************************************************************)
(* Python values of the descriptor and of the manifest, each a sequence    *)
(* headed by its type: None, False, True, a str, a list, a dict.           *)
(***************************************************************************)

PyNone == <<"None">>

PyFalse == <<"False">>

PyTrue == <<"True">>

PyStr(s) == <<"str">> \o s

PyList(items) == <<"list">> \o items

PyDict(items) == <<"dict">> \o items

StrOf(v) == Tail(v)

\* bool(v), as the comprehension's "if v" evaluates it
Truthy(v) == v \notin {PyNone, PyFalse, PyStr(<<>>), PyList(<<>>), PyDict(<<>>)}

\* ext_yaml.get(k, default)
Get(ext_yaml, k, default) == IF k \in DOMAIN ext_yaml THEN ext_yaml[k] ELSE default

\* ext_yaml['github'].split('/')[-1]
RepoName(ext_yaml) ==
    LET segs == Split(StrOf(ext_yaml["github"])) IN segs[Len(segs)]

\* the base_url argument of parse_extensions
BaseUrl == <<"h", ":", "/", "/", "x">>

ValidUntil == PyStr(<<"2030-05-16T18:35:33.000Z">>)

ManifestKeys ==
    {"identifier", "name", "content_type", "area", "version", "description",
     "marketing_url", "thumbnail_url", "valid_until", "url", "download_url",
     "latest_url", "flags", "dock_icon", "layerable", "statusBar"}

\* '/'.join([base_url, repo_name, 'index.json'])
LatestUrl(repo_name) ==
    PyStr(Join(<<BaseUrl, repo_name, <<"index.json">>>>))

\* the dict(...) built for a descriptor, before the empty values are stripped
ExtensionDict(ext_yaml, ext_version) ==
    LET repo_name == RepoName(ext_yaml)
    IN [k \in ManifestKeys |->
         CASE k = "identifier"    -> ext_yaml["id"]
           [] k = "name"          -> ext_yaml["name"]
           [] k = "content_type"  -> ext_yaml["content_type"]
           [] k = "area"          -> Get(ext_yaml, "area", PyNone)
           [] k = "version"       -> PyStr(ext_version)
           [] k = "description"   -> Get(ext_yaml, "description", PyNone)
           [] k = "marketing_url" -> Get(ext_yaml, "marketing_url", PyNone)
           [] k = "thumbnail_url" -> Get(ext_yaml, "thumbnail_url", PyNone)
           [] k = "valid_until"   -> ValidUntil
           [] k = "url"           ->
                PyStr(Join(<<BaseUrl, repo_name, ext_version,
                             StrOf(ext_yaml["main"])>>))
           [] k = "download_url"  ->
                PyStr(<<"https://github.com/">> \o StrOf(ext_yaml["github"])
                      \o <<"/archive/">> \o ext_version \o <<".zip">>)
           [] k = "latest_url"    -> LatestUrl(repo_name)
           [] k = "flags"         -> Get(ext_yaml, "flags", PyList(<<>>))
           [] k = "dock_icon"     -> Get(ext_yaml, "dock_icon", PyDict(<<>>))
           [] k = "layerable"     -> Get(ext_yaml, "layerable", PyNone)
           [] k = "statusBar"     -> Get(ext_yaml, "statusBar", PyNone)]

\* a strip that drops None alone: if v is not None
StripNoneOnly(extension) ==
    [k \in {x \in DOMAIN extension : extension[x] # PyNone} |-> extension[k]]

\* {k: v for k, v in extension.items() if v}
StripEmpty(extension) ==
    [k \in {x \in DOMAIN extension : Truthy(extension[x])} |-> extension[k]]

\* the extension record that is serialized for a descriptor
Extension(ext_yaml, ext_version) ==
    StripEmpty(ExtensionDict(ext_yaml, ext_version))

(***************************************************************************)
(* The upstream repositories and the descriptors of the runs checked.      *)
(***************************************************************************)

\* no tag, no release: the empty output of git rev-list, no tag_name key
NoTag == <<>>

Tag1 == <<"1">>

Tag2 == <<"2">>

Tags == {Tag1, Tag2}

GhF == <<"o", "/", "f">>

GhG == <<"o", "/", "g">>

Githubs == {GhF, GhG}

RepoNames == {<<"f">>, <<"g">>}

\* the version directories public/<repo>/<tag> that may come to exist
VersionDirs == {<<<<"f">>, Tag1>>, <<<<"f">>, Tag2>>, <<<<"g">>, Tag1>>}

\* the tags a repository may have: o/f up to two releases, o/g one
TagsOf(github) == IF github = GhF THEN {Tag1, Tag2} ELSE {Tag1}

\* The zipball GitHub serves for a release. o/f 1 lists its directories as
\* GitHub's archives do; o/f 2 lists files only.
ZipballOf(github, tag) ==
    CASE github = GhF /\ tag = Tag1 ->
            << <<"r", "/">>, <<"r", "/", "a">>, <<"r", "/", "s", "/">>,
               <<"r", "/", "s", "/", "b">>, <<"r", "/", ".", "g", "/">>,
               <<"r", "/", ".", "g", "/", "c">> >>
      [] github = GhF /\ tag = Tag2 ->
            << <<"r", "/", "a">>, <<"r", "/", "s", "/", "b">>,
               <<"r", "/", ".", "g", "/", "c">> >>
      [] OTHER ->
            << <<"r", "/">>, <<"r", "/", "a">> >>

GitDir == <<".", "g", "i", "t">>

\* the work tree git clone leaves in <repo>_tmp: the repository's files and
\* its .git directory
WorkTree(github, tag) ==
    LET files == {Stripped(m) : m \in
                    {x \in Range(ZipballOf(github, tag)) :
                        IsFileEntry(x) /\ Stripped(x) # <<>>}}
    IN [exists |-> TRUE,
        dirs   |-> {GitDir} \cup UNION {Ancestors(f) : f \in files},
        files  |-> files \cup {GitDir \o <<"/", "HEAD">>}]

\* shutil.rmtree(os.path.join(..., '.git'))
RmtreeGit(d) ==
    [d EXCEPT !.dirs  = {x \in @ : x # GitDir /\ ~StartsWith(x, GitDir \o <<"/">>)},
              !.files = {x \in @ : ~StartsWith(x, GitDir \o <<"/">>)}]

\* git rev-list --tags --max-count=1: the commit of the latest tag, or
\* nothing when the clone has no tag
RevListTags(tag) == IF tag = NoTag THEN <<>> ELSE <<"c">> \o tag

\* git describe --tags <commit>: exits non-zero on an empty commit name
DescribeFails(commit) == commit = <<>>

DescribeTags(commit) == Tail(commit)

\* what the network does to one request: the latest-release query or the
\* clone (Resolve), and the zipball download (Fetch)
ResolveOutcomes == {"ok", "fail"}

FetchOutcomes == {"ok", "fail"}

(***************************************************************************)
(* The two branches of the loop body of parse_extensions. Each returns the *)
(* public/ directory afterwards with                                       *)
(*   flow: "next" (falls through to the manifest code), "continue" or      *)
(*         "raise" (the exception in raised leaves parse_extensions),      *)
(*   ext_version, ext_has_update, and what was observed on the way.        *)
(***************************************************************************)

Disk == [repoDirs |-> repoDirs, verdir |-> verdir, zips |-> zips, tmp |-> tmp]

Outcome(disk, flow, raised, ext_version, ext_has_update, existed, fetched) ==
    [disk |-> disk, flow |-> flow, raised |-> raised,
     ext_version |-> ext_version, ext_has_update |-> ext_has_update,
     existed |-> existed, fetched |-> fetched]

\* a run that takes every version directory for missing
VersionExistsNever(disk, repo_name, ext_version) == FALSE

\* a run that tests os.path.exists(repo_dir) in place of the version directory
RepoDirExists(disk, repo_name, ext_version) == repo_name \in disk.repoDirs

\* os.path.exists(os.path.join(repo_dir, ext_version))
VersionExists(disk, repo_name, ext_version) ==
    disk.verdir[<<repo_name, ext_version>>].exists

\* lines 146-155: the version directory is created, the zipball fetched to
\* <version>.zip and unpacked; z is what process_zipball does with it
FetchAndUnpack(d1, at, tag, fetch, z) ==
    IF fetch = "fail"
    THEN Outcome([d1 EXCEPT !.verdir[at] = EmptyDir],
                 "raise", "ConnectionError", tag, TRUE, FALSE, FALSE)
    ELSE Outcome([d1 EXCEPT !.verdir[at] = z.dir,
                            !.zips = IF z.zip THEN @ \cup {at} ELSE @ \ {at}],
                 IF z.raised # "none" THEN "raise" ELSE "next",
                 z.raised, tag, TRUE, FALSE, TRUE)

\* lines 140-155: a release was found; d1 has repo_dir
RemoteMaterialize(d1, github, repo_name, tag, fetch) ==
    IF VersionExists(d1, repo_name, tag)
    THEN Outcome(d1, "next", "none", tag, FALSE, TRUE, FALSE)
    ELSE FetchAndUnpack(d1, <<repo_name, tag>>, tag, fetch,
                        process_zipball(EmptyDir, ZipballOf(github, tag)))

\* lines 128-139: the latest-release query and its tag_name
RemoteResolve(disk, github, repo_name, tag, resolve, fetch) ==
    IF resolve = "fail"
    THEN Outcome(disk, "raise", "ConnectionError", NoTag, FALSE, FALSE, FALSE)
    ELSE IF tag = NoTag
    THEN Outcome(disk, "continue", "none", NoTag, FALSE, FALSE, FALSE)
    ELSE RemoteMaterialize([disk EXCEPT !.repoDirs = @ \cup {repo_name}],
                           github, repo_name, tag, fetch)

\* lines 126-155: ghub_session is not None
RemoteQuery(disk, ext_yaml, resolve, fetch) ==
    RemoteResolve(disk, StrOf(ext_yaml["github"]), RepoName(ext_yaml),
                  latest[StrOf(ext_yaml["github"])], resolve, fetch)

\* lines 83-98: d1 holds the clone in <repo>_tmp; tree is its work tree
CloneMaterialize(d1, repo_name, ext_version, ext_has_update, tree) ==
    IF ~VersionExists(d1, repo_name, ext_version)
    THEN Outcome([d1 EXCEPT !.tmp = @ \ {repo_name},
                            !.repoDirs = @ \cup {repo_name},
                            !.verdir[<<repo_name, ext_version>>] = RmtreeGit(tree)],
                 "next", "none", ext_version, TRUE, FALSE, FALSE)
    ELSE Outcome([d1 EXCEPT !.tmp = @ \ {repo_name}],
                 "next", "none", ext_version, ext_has_update, TRUE, FALSE)

\* lines 62-81: the clone, then the version from its tags
CloneResolve(disk, github, repo_name, ext_has_update, resolve, ext_last_commit) ==
    IF repo_name \in disk.tmp \/ resolve = "fail"
    THEN Outcome(disk, "raise", "CalledProcessError(git clone)", NoTag,
                 ext_has_update, FALSE, FALSE)
    ELSE IF DescribeFails(ext_last_commit)
    THEN Outcome([disk EXCEPT !.tmp = @ \cup {repo_name}], "raise",
                 "CalledProcessError(git describe)", NoTag,
                 ext_has_update, FALSE, FALSE)
    ELSE CloneMaterialize([disk EXCEPT !.tmp = @ \cup {repo_name}], repo_name,
                          DescribeTags(ext_last_commit), ext_has_update,
                          WorkTree(github, DescribeTags(ext_last_commit)))

\* lines 56-98
git_clone_method(disk, ext_yaml, ext_has_update, resolve) ==
    CloneResolve(disk, StrOf(ext_yaml["github"]), RepoName(ext_yaml),
                 ext_has_update, resolve,
                 RevListTags(latest[StrOf(ext_yaml["github"])]))

(***************************************************************************)
(* parse_extensions.                                                       *)
(***************************************************************************)

YamlSuffix == <<".", "y", "a", "m", "l">>

ThemeSuffix == <<"t", "h", "e", "m", "e", ".", "y", "a", "m", "l">>

IsThemeFile(x) == EndsWith(x, ThemeSuffix)

IsExtFile(x) == ~EndsWith(x, ThemeSuffix) /\ EndsWith(x, YamlSuffix)

\* a listing that puts the theme files first
ThemesFirst(listdir) ==
    SelectSeq(Sorted(listdir), IsThemeFile) \o SelectSeq(Sorted(listdir), IsExtFile)

\* lines 114-116: the descriptor files in the order the loop takes them
ExtFiles(listdir) ==
    SelectSeq(Sorted(listdir), IsExtFile) \o SelectSeq(Sorted(listdir), IsThemeFile)

NoFile == [exists |-> FALSE, data |-> <<>>]

NoLast == [file |-> <<>>, outcome |-> "none", version |-> NoTag,
           existed |-> FALSE, has_update |-> FALSE, fetched |-> FALSE,
           index_written |-> FALSE]

\* a run that writes the package's index.json whatever ext_has_update is
WritesIndexAlways(ext_has_update) == TRUE

\* line 186: whether the package's index.json is written
WritesIndex(ext_has_update) == ext_has_update

\* lines 211-220: the repository index written at the end of a run
RepoIndex(packages) ==
    [exists |-> TRUE, content_type |-> PyStr(<<"SN|Repo">>),
     valid_until |-> ValidUntil, packages |-> packages]

NoRepoIndex ==
    [exists |-> FALSE, content_type |-> PyNone, valid_until |-> PyNone,
     packages |-> <<>>]

\* lines 101-116: a call of parse_extensions(base_dir, base_url, ghub_session)
StartRun(ghub_session) ==
    /\ pc = "idle"
    /\ session' = ghub_session
    /\ extfiles' = ExtFiles(DOMAIN extdir)
    /\ idx' = 1
    /\ extensions' = <<>>
    /\ pc' = "loop"
    /\ err' = "none"
    /\ last' = NoLast
    /\ fresh' = (clean /\ session = ghub_session)
    /\ clean' = FALSE
    /\ UNCHANGED <<extdir, latest, repoDirs, verdir, zips, tmp, pkgIndex,
                   rootIndex, crashed, zarchive, zresult>>

\* lines 160-206: the record is built, index.json written if there was an
\* update, the record appended; o is the outcome of the resolution branch
Record(extfile, repo_name, o, extension, write) ==
    /\ repoDirs' = o.disk.repoDirs
    /\ verdir' = o.disk.verdir
    /\ zips' = o.disk.zips
    /\ tmp' = o.disk.tmp
    /\ pkgIndex' = IF write
                   THEN [pkgIndex EXCEPT ![repo_name] =
                           [exists |-> TRUE, data |-> extension]]
                   ELSE pkgIndex
    /\ extensions' = IF o.flow = "next"
                     THEN Append(extensions, extension)
                     ELSE extensions
    /\ pc' = IF o.flow = "raise" THEN "aborted" ELSE "loop"
    /\ err' = o.raised
    /\ crashed' = (crashed \/ o.flow = "raise")
    /\ idx' = IF o.flow = "raise" THEN idx ELSE idx + 1
    /\ last' = [file |-> extfile,
                outcome |-> CASE o.flow = "raise" -> "Raised"
                              [] o.flow = "continue" -> "Failed"
                              [] o.ext_has_update -> "Updated"
                              [] OTHER -> "UpToDate",
                version |-> o.ext_version,
                existed |-> o.existed,
                has_update |-> o.ext_has_update,
                fetched |-> o.fetched,
                index_written |-> write]

\* lines 121-158: ext_has_update = False, then one of the two branches
Resolution(ext_yaml, resolve, fetch) ==
    IF session # "None"
    THEN RemoteQuery(Disk, ext_yaml, resolve, fetch)
    ELSE git_clone_method(Disk, ext_yaml, FALSE, resolve)

Iteration(extfile, ext_yaml, o) ==
    Record(extfile, RepoName(ext_yaml), o, Extension(ext_yaml, o.ext_version),
           o.flow = "next" /\ WritesIndex(o.ext_has_update))

\* lines 118-206: one iteration of the for loop
LoopBody(resolve, fetch) ==
    /\ pc = "loop"
    /\ idx <= Len(extfiles)
    /\ Iteration(extfiles[idx], extdir[extfiles[idx]],
                 Resolution(extdir[extfiles[idx]], resolve, fetch))
    /\ UNCHANGED <<extdir, latest, rootIndex, session, extfiles, clean,
                   fresh, zarchive, zresult>>

\* lines 207-222: the loop is over, the repository index is written
Finish ==
    /\ pc = "loop"
    /\ idx > Len(extfiles)
    /\ rootIndex' = RepoIndex(extensions)
    /\ pc' = "done"
    /\ UNCHANGED <<extdir, latest, repoDirs, verdir, zips, tmp, pkgIndex,
                   session, extfiles, idx, extensions, last, err, clean,
                   fresh, crashed, zarchive, zresult>>

\* parse_extensions has returned or raised: its locals are gone
Return ==
    /\ pc \in {"done", "aborted"}
    /\ pc' = "idle"
    /\ clean' = (pc = "done")
    /\ extfiles' = <<>>
    /\ idx' = 1
    /\ extensions' = <<>>
    /\ last' = NoLast
    /\ err' = "none"
    /\ fresh' = FALSE
    /\ UNCHANGED <<extdir, latest, repoDirs, verdir, zips, tmp, pkgIndex,
                   rootIndex, session, crashed, zarchive, zresult>>

(***************************************************************************)
(* The environment between two runs.                                       *)
(***************************************************************************)

\* upstream publishes a release, or withdraws one so that tag (or none) is
\* the latest again: what lines 128-133 and 67-81 read
Release(github, tag) ==
    /\ pc = "idle"
    /\ latest[github] # tag
    /\ latest' = [latest EXCEPT ![github] = tag]
    /\ clean' = FALSE
    /\ UNCHANGED <<extdir, repoDirs, verdir, zips, tmp, pkgIndex, rootIndex,
                   pc, session, extfiles, idx, extensions, last, err, fresh,
                   crashed, zarchive, zresult>>

Description == PyStr(<<"d">>)

\* a descriptor file is edited: its description is added or removed (what
\* lines 119-120 read)
EditDescriptor(extfile) ==
    /\ pc = "idle"
    /\ extdir' = [extdir EXCEPT ![extfile] =
                    IF "description" \in DOMAIN @
                    THEN [k \in DOMAIN @ \ {"description"} |-> @[k]]
                    ELSE @ @@ ("description" :> Description)]
    /\ clean' = FALSE
    /\ UNCHANGED <<latest, repoDirs, verdir, zips, tmp, pkgIndex, rootIndex,
                   pc, session, extfiles, idx, extensions, last, err, fresh,
                   crashed, zarchive, zresult>>

(***************************************************************************)
(* Specification Spec: runs of parse_extensions over two descriptors, in   *)
(* either mode, with upstream releases and descriptor edits between runs.  *)
(***************************************************************************)

Yaml(id, github) ==
    [id |-> PyStr(id), name |-> PyStr(<<"n">>),
     content_type |-> PyStr(<<"SN|Component">>), github |-> PyStr(github),
     main |-> PyStr(<<"index.html">>)]

FileA == <<"a">> \o YamlSuffix

FileB == <<"b">> \o YamlSuffix

Descriptors == (FileA :> Yaml(<<"a">>, GhF)) @@ (FileB :> Yaml(<<"b">>, GhG))

EmptyPublic ==
    /\ repoDirs = {}
    /\ verdir = [at \in VersionDirs |-> NoDir]
    /\ zips = {}
    /\ tmp = {}
    /\ pkgIndex = [r \in RepoNames |-> NoFile]
    /\ rootIndex = NoRepoIndex

NotStarted ==
    /\ pc = "idle"
    /\ session = "None"
    /\ extfiles = <<>>
    /\ idx = 1
    /\ extensions = <<>>
    /\ last = NoLast
    /\ err = "none"
    /\ clean = FALSE
    /\ fresh = FALSE
    /\ crashed = FALSE

NotUnzipped == [state |-> "pending", dir |-> EmptyDir, raised |-> "none",
                zip |-> TRUE]

ZipUnused == zarchive = <<>> /\ zresult = NotUnzipped

Init ==
    /\ extdir = Descriptors
    /\ latest \in {l \in [Githubs -> Tags \cup {NoTag}] :
                      \A g \in Githubs : l[g] \in TagsOf(g) \cup {NoTag}}
    /\ EmptyPublic
    /\ NotStarted
    /\ ZipUnused

Next ==
    \/ \E ghub_session \in {"Session", "None"} : StartRun(ghub_session)
    \/ \E resolve \in ResolveOutcomes, fetch \in FetchOutcomes :
          LoopBody(resolve, fetch)
    \/ Finish
    \/ Return
    \/ \E github \in Githubs :
          \E tag \in TagsOf(github) \cup {NoTag} : Release(github, tag)
    \/ EditDescriptor(FileA)

Spec == Init /\ [][Next]_vars

\* the steps of parse_extensions alone, nothing altered between the runs
NextRun ==
    \/ \E ghub_session \in {"Session", "None"} : StartRun(ghub_session)
    \/ \E resolve \in ResolveOutcomes, fetch \in FetchOutcomes :
          LoopBody(resolve, fetch)
    \/ Finish
    \/ Return

(***************************************************************************)
(* Specification SpecZip: process_zipball on every archive of at most      *)
(* MaxEntries entries drawn from ZipMembers, into the empty version        *)
(* directory line 146 has just created.                                    *)
(***************************************************************************)

MaxEntries == 3

ZipMembers ==
    { <<"r", "/">>, <<"r", "/", "a">>, <<"r", "/", "s", "/">>,
      <<"r", "/", "s", "/", "b">>, <<"r", "/", ".", "g", "/", "c">>,
      <<"r", "/", "s", "/", ".", "h">> }

Archives == UNION {[1..n -> ZipMembers] : n \in 0..MaxEntries}

\* root/a.txt, root/sub/b.txt, root/.git/config
ExampleArchive ==
    << <<"r", "/", "a">>, <<"r", "/", "s", "/", "b">>,
       <<"r", "/", ".", "g", "/", "c">> >>

InitZip ==
    /\ zarchive \in Archives
    /\ zresult = NotUnzipped
    /\ extdir = Descriptors
    /\ latest = [g \in Githubs |-> NoTag]
    /\ EmptyPublic
    /\ NotStarted

\* lines 24-53: process_zipball(repo_dir, release_version)
Unzip ==
    /\ zresult.state = "pending"
    /\ zresult' = [state |-> "done"] @@ process_zipball(EmptyDir, zarchive)
    /\ UNCHANGED <<extdir, latest, repoDirs, verdir, zips, tmp, pkgIndex,
                   rootIndex, pc, session, extfiles, idx, extensions, last,
                   err, clean, fresh, crashed, zarchive>>

NextZip == Unzip

SpecZip == InitZip /\ [][NextZip]_vars

\* C3: process_zipball returns having written into the version directory
\* exactly the files of the archive whose path without its first segment is
\* not empty and does not begin with '.'; none is dropped because its
\* directory was missing.
C3_RootStrippingExtraction ==
    zresult.state = "done" =>
        /\ zresult.raised = "none"
        /\ zresult.dir.files = Retained(zarchive)

\* the example of C3: root/a.txt, root/sub/b.txt, root/.git/config
\* materialize exactly a.txt and sub/b.txt
C3_Example ==
    (zresult.state = "done" /\ zarchive = ExampleArchive) =>
        zresult.dir.files = {<<"a">>, <<"s", "/", "b">>}

\* where every directory is listed before what it holds, and once, as in
\* GitHub's zipballs, nothing is dropped
ListsDirectoriesFirst(archive) ==
    /\ \A i, j \in 1..Len(archive) : i # j => archive[i] # archive[j]
    /\ \A i \in 1..Len(archive) :
          \A a \in Ancestors(Stripped(archive[i])) :
             \E j \in 1..(i - 1) : archive[j] = <<"r", "/">> \o a \o <<"/">>

ZipLosslessWithDirectories ==
    (zresult.state = "done" /\ ListsDirectoriesFirst(zarchive)) =>
        /\ zresult.raised = "none"
        /\ zresult.dir.files = Retained(zarchive)

(***************************************************************************)
(* Specification SpecFields: runs over one descriptor whose optional       *)
(* fields, and name, each take an absent, an empty and a non-empty value.  *)
(***************************************************************************)

Absent == <<"absent">>

OptionalKeys ==
    {"area", "description", "marketing_url", "thumbnail_url", "flags",
     "dock_icon", "layerable", "statusBar"}

FieldYaml(name, choice) ==
    [Yaml(<<"a">>, GhF) EXCEPT !.name = name]
        @@ [k \in {x \in OptionalKeys : choice[x] # Absent} |-> choice[k]]

FieldYamls ==
    {FieldYaml(name,
               [area |-> a, description |-> d, marketing_url |-> m,
                thumbnail_url |-> t, flags |-> f, dock_icon |-> i,
                layerable |-> l, statusBar |-> b]) :
        name \in {PyStr(<<>>), PyStr(<<"n">>)},
        a \in {Absent, PyNone, PyStr(<<"e">>)},
        d \in {Absent, PyStr(<<>>), PyStr(<<"d">>)},
        m \in {Absent, PyStr(<<"m">>)},
        t \in {Absent, PyNone},
        f \in {Absent, PyList(<<>>), PyList(<<"f">>)},
        i \in {Absent, PyDict(<<>>), PyDict(<<"i">>)},
        l \in {Absent, PyFalse, PyTrue},
        b \in {Absent, PyTrue}}

InitFields ==
    /\ extdir \in {(FileA :> y) : y \in FieldYamls}
    /\ latest = (GhF :> Tag1) @@ (GhG :> NoTag)
    /\ EmptyPublic
    /\ NotStarted
    /\ ZipUnused

SpecFields == InitFields /\ [][NextRun]_vars

\* every record serialized so far: into a package index.json, into the
\* repository index, or waiting in the run's packages
Serialized ==
    {pkgIndex[r].data : r \in {x \in RepoNames : pkgIndex[x].exists}}
        \cup Range(rootIndex.packages) \cup Range(extensions)

EmptyValues == {<<"None">>, <<"False">>, <<"str">>, <<"list">>, <<"dict">>}

\* C7: a serialized record has a key exactly when the value computed for it
\* is not None, false, an empty string or an empty collection (a field the
\* descriptor lacks computes to such a value), it never holds such a value,
\* and version, valid_until, url, download_url and latest_url are always
\* there.
C7_FieldOmission ==
    \A m \in Serialized :
        LET ext_yaml == extdir[FileA]
            kept(k)  == k \in DOMAIN ext_yaml /\ ext_yaml[k] \notin EmptyValues
        IN /\ DOMAIN m \subseteq ManifestKeys
           /\ \A k \in OptionalKeys : k \in DOMAIN m <=> kept(k)
           /\ \A k \in OptionalKeys \cap DOMAIN m : m[k] = ext_yaml[k]
           /\ "identifier" \in DOMAIN m <=> kept("id")
           /\ "name" \in DOMAIN m <=> kept("name")
           /\ "content_type" \in DOMAIN m <=> kept("content_type")
           /\ {"version", "valid_until", "url", "download_url", "latest_url"}
                 \subseteq DOMAIN m
           /\ \A k \in DOMAIN m : m[k] \notin EmptyValues

C7_Witness ==
    /\ pkgIndex[<<"f">>].exists
    /\ rootIndex.exists
    /\ rootIndex.packages = <<pkgIndex[<<"f">>].data>>
    /\ "description" \notin DOMAIN extdir[FileA]
    /\ "flags" \in DOMAIN extdir[FileA]
    /\ DOMAIN pkgIndex[<<"f">>].data =
          {"identifier", "content_type", "version", "valid_until", "url",
           "download_url", "latest_url", "statusBar"}

(***************************************************************************)
(* Specification SpecOrder: runs over every set of the descriptor files    *)
(* a.yaml, b.yaml, mtheme.yaml, ztheme.yaml (beside a file that is no      *)
(* descriptor), the identifiers a, b, m, z given to them in every way.     *)
(***************************************************************************)

FileM == <<"m">> \o ThemeSuffix

FileZ == <<"z">> \o ThemeSuffix

FileReadme == <<"c", ".", "m", "d">>

OrderFiles == {FileA, FileB, FileM, FileZ}

OrderIds == {<<"a">>, <<"b">>, <<"m">>, <<"z">>}

OrderGithub(extfile) == IF extfile \in {FileA, FileM} THEN GhF ELSE GhG

OrderDirs ==
    UNION {{[x \in S \cup {FileReadme} |->
                IF x = FileReadme THEN <<>> ELSE Yaml(ids[x], OrderGithub(x))] :
              ids \in {f \in [S -> OrderIds] :
                         \A x, y \in S : x # y => f[x] # f[y]}} :
           S \in SUBSET OrderFiles}

InitOrder ==
    /\ extdir \in OrderDirs
    /\ latest = [g \in Githubs |-> Tag1]
    /\ EmptyPublic
    /\ NotStarted
    /\ ZipUnused

SpecOrder == InitOrder /\ [][NextRun]_vars

\* the descriptor file a package of the repository index was built from
SourceFile(package) ==
    CHOOSE x \in DOMAIN extdir \ {FileReadme} :
        extdir[x]["id"] = package["identifier"]

\* x is listed before y: regular before theme, else by file name
FileBefore(x, y) ==
    \/ ~IsThemeFile(x) /\ IsThemeFile(y)
    \/ IsThemeFile(x) = IsThemeFile(y) /\ StrLess(x, y)

\* C6 as amended: after a completed run the repository index lists every
\* descriptor once, the packages of regular descriptor files before those of
\* theme descriptor files, each group in ascending order of file name.
C6_OrderedByFileName ==
    pc = "done" =>
        LET packages == rootIndex.packages
        IN /\ Len(packages) = Cardinality(DOMAIN extdir \ {FileReadme})
           /\ \A i, j \in 1..Len(packages) :
                 i < j => FileBefore(SourceFile(packages[i]),
                                     SourceFile(packages[j]))

\* C6: after a completed run the repository index lists the regular packages
\* before the theme packages, each group in ascending order of identifier.
C6_OrderedByIdentifier ==
    pc = "done" =>
        LET packages == rootIndex.packages
        IN \A i, j \in 1..Len(packages) :
              i < j =>
                LET x == SourceFile(packages[i])
                    y == SourceFile(packages[j])
                IN \/ ~IsThemeFile(x) /\ IsThemeFile(y)
                   \/ /\ IsThemeFile(x) = IsThemeFile(y)
                      /\ StrLess(StrOf(packages[i]["identifier"]),
                                 StrOf(packages[j]["identifier"]))

C6_Witness ==
    /\ pc = "done"
    /\ Len(rootIndex.packages) = 4
    /\ extdir[FileA]["id"] = PyStr(<<"z">>)
    /\ extdir[FileZ]["id"] = PyStr(<<"a">>)
    /\ rootIndex.packages[1]["identifier"] = PyStr(<<"z">>)

(***************************************************************************)
(* Properties of Spec.                                                     *)
(***************************************************************************)

GithubOf(extfile) == StrOf(extdir[extfile]["github"])

HasRelease(extfile) == latest[GithubOf(extfile)] # NoTag

\* the descriptor the loop is about to process, or has just raised on
Current == extfiles[idx]

\* C1: a descriptor whose resolution finds no release (no tag_name, or a clone
\* without tags) never ends the run: the run goes on, and once it is done the
\* repository index lists exactly the descriptors that have a release, in
\* their order, the one without a release left out.
C1_FailureIsolation ==
    /\ (pc = "aborted" /\ ~HasRelease(Current)) =>
           err \in {"ConnectionError", "CalledProcessError(git clone)"}
    /\ pc = "done" =>
           LET kept == SelectSeq(extfiles, HasRelease)
           IN /\ rootIndex.exists
              /\ Len(rootIndex.packages) = Len(kept)
              /\ \A i \in 1..Len(kept) :
                    rootIndex.packages[i] =
                        Extension(extdir[kept[i]], latest[GithubOf(kept[i])])

\* the same for the Remote-Query strategy alone
C1_RemoteIsolation == session = "Session" => C1_FailureIsolation

C1_RemoteWitness ==
    /\ pc = "done"
    /\ session = "Session"
    /\ ~HasRelease(extfiles[1])
    /\ Len(rootIndex.packages) = 1

\* the files a fully materialized version directory of a repository holds:
\* the archive's retained files, or the clone's work tree without .git
Payloads(repo_name, tag) ==
    UNION {{Retained(ZipballOf(g, tag)), RmtreeGit(WorkTree(g, tag)).files} :
             g \in {x \in Githubs : Split(x)[Len(Split(x))] = repo_name}}

\* C2: in every reachable state a version directory that exists holds the
\* complete payload of its release.
C2_PresenceMeansMaterialized ==
    \A at \in VersionDirs :
        verdir[at].exists => verdir[at].files \in Payloads(at[1], at[2])

\* C4: a run that repeats a completed run with the same arguments, descriptors
\* and upstream changes no version directory and no package index.json,
\* fetches, extracts and keeps nothing, raises nothing but a transport
\* failure, and writes the repository index it found.
C4_Idempotence ==
    [][fresh =>
         /\ verdir' = verdir
         /\ pkgIndex' = pkgIndex
         /\ rootIndex' = rootIndex
         /\ zips' = zips
         /\ tmp' = tmp
         /\ ~last'.has_update
         /\ ~last'.fetched
         /\ ~last'.index_written
         /\ err' \in {"none", "ConnectionError", "CalledProcessError(git clone)"}
         /\ pc' = "done" => pc = "done" \/ rootIndex' = RepoIndex(extensions)]_vars

C4_Witness ==
    /\ fresh
    /\ pc = "done"
    /\ Len(rootIndex.packages) = 2
    /\ \A at \in {<<<<"f">>, latest[GhF]>>, <<<<"g">>, latest[GhG]>>} :
          verdir[at].exists

\* C5: when the loop body resolves a version, then if public/<repo>/<version>
\* exists at that moment the descriptor ends UpToDate, nothing is fetched,
\* every version directory is left as it was and ext_has_update stays false;
\* if it does not exist the directory is created and ext_has_update is set,
\* the descriptor ending Updated unless the fetch raises.
C5_PresenceGate ==
    [][(pc = "loop" /\ idx <= Len(extfiles) /\ last'.version # NoTag) =>
         LET at == <<RepoName(extdir[Current]), last'.version>>
         IN IF verdir[at].exists
            THEN /\ last'.outcome = "UpToDate"
                 /\ ~last'.has_update
                 /\ ~last'.fetched
                 /\ verdir' = verdir
                 /\ zips' = zips
            ELSE /\ last'.has_update
                 /\ verdir'[at].exists
                 /\ last'.outcome \in {"Updated", "Raised"}
                 /\ last'.outcome = "Raised" => err' = "ConnectionError"]_vars

C5_Witness ==
    /\ last.outcome = "UpToDate"
    /\ last.existed
    /\ verdir[<<RepoName(extdir[last.file]), last.version>>].files # {}

\* C8: an iteration of the loop writes public/<repo>/index.json, with the
\* descriptor's record, exactly when the descriptor ends Updated; otherwise
\* every index.json is left as it was, and a descriptor that ends UpToDate
\* is appended to the run's packages all the same.
C8_IndexWrittenOnUpdate ==
    [][(pc = "loop" /\ idx <= Len(extfiles)) =>
         LET ext_yaml  == extdir[Current]
             extension == Extension(ext_yaml, last'.version)
         IN /\ last'.index_written <=> last'.outcome = "Updated"
            /\ last'.outcome = "Updated" =>
                 pkgIndex' = [pkgIndex EXCEPT ![RepoName(ext_yaml)] =
                                [exists |-> TRUE, data |-> extension]]
            /\ last'.outcome # "Updated" => pkgIndex' = pkgIndex
            /\ last'.outcome = "UpToDate" =>
                 extensions' = Append(extensions, extension)
            /\ last'.outcome \in {"Failed", "Raised"} =>
                 extensions' = extensions]_vars

C8_Witness ==
    /\ last.outcome = "UpToDate"
    /\ ~last.index_written
    /\ extensions # <<>>
    /\ extensions[Len(extensions)]["version"] = PyStr(last.version)

\* C9: after git_clone_method is through with a descriptor, whatever the
\* outcome, no public/<repo>_tmp is left and no version directory holds a
\* .git directory; no run fails on a clone a former run left.
C9_NoTransientClone ==
    /\ tmp = {}
    /\ \A at \in VersionDirs : GitDir \notin verdir[at].dirs

\* C10: after runs that all completed, every package of the repository index
\* has its public/<repo>/index.json, equal to its entry in the index.
C10_IndexAgreesWithAggregate ==
    (pc = "done" /\ ~crashed) =>
        \A i \in 1..Len(rootIndex.packages) :
            \E r \in RepoNames :
                /\ rootIndex.packages[i]["latest_url"] = LatestUrl(r)
                /\ pkgIndex[r].exists
                /\ pkgIndex[r].data = rootIndex.packages[i]

====
